---- MODULE Spec2Model ----
(***************************************************************************)
(* Model of the movie API of postman_backend: the OMDb service             *)
(* (services/omdb.go, here src/unnamed/part_001) and the two handlers that *)
(* drive it (handlers/movie.go, here src/unnamed/part_000).                *)
(*                                                                         *)
(* One request is served per behaviour of Spec, two at once per behaviour  *)
(* of PairSpec.  The upstream catalog API is the                           *)
(* environment: every search and every detail lookup may fail, and the     *)
(* answers are drawn from a small catalog.  Go strings are TLA+ strings    *)
(* and the string functions of the code (ToLower, Contains, EqualFold,     *)
(* Split, ParseFloat) are computed character by character.                 *)
(***************************************************************************)
EXTENDS Integers, Sequences, FiniteSets, TLC

-----------------------------------------------------------------------------
(* Bounds of the model.                                                    *)

\* The cap of a facet list: the literal 20 of GetRecommendations
\* (part_001:170,173,182,185,194,197), scaled down to the model's catalog.
FacetCap == 3

\* The limit the handler passes to GetMoviesByGenre: the literal 15 of
\* part_000:150, scaled down to the model's catalog.
GenreLimit == 2

\* The switches of goroutines tried before a request returns.
MaxPreemptions == 2

(* Program constants.                                                      *)
GenrePages == 3
FacetPages == 2
MaxActors == 3

-----------------------------------------------------------------------------
(* Go strings.                                                             *)

Upper == "ABCDEFGHIJKLMNOPQRSTUVWXYZ"
Lower == "abcdefghijklmnopqrstuvwxyz"
Digits == "0123456789"

CharAt(s, i) == SubSeq(s, i, i)

\* unicode.ToLower on one character (the model's strings are ASCII).
LowerChar(c) ==
    IF \E i \in 1..26 : CharAt(Upper, i) = c
    THEN CharAt(Lower, CHOOSE i \in 1..26 : CharAt(Upper, i) = c)
    ELSE c

RECURSIVE ToLower(_)
\* strings.ToLower
ToLower(s) ==
    IF s = "" THEN ""
    ELSE LowerChar(CharAt(s, 1)) \o ToLower(SubSeq(s, 2, Len(s)))

\* strings.EqualFold: equality under simple case folding.
EqualFold(s, t) == ToLower(s) = ToLower(t)

\* strings.Index, 1-based; 0 when sub does not occur in s.
IndexOf(s, sub) ==
    LET at == {i \in 1..(Len(s) - Len(sub) + 1) : SubSeq(s, i, i + Len(sub) - 1) = sub}
    IN  IF at = {} THEN 0 ELSE CHOOSE i \in at : \A j \in at : i <= j

\* strings.Contains
Contains(s, sub) == sub = "" \/ IndexOf(s, sub) > 0

RECURSIVE Split(_, _)
\* strings.Split with a non-empty separator: Split("", sep) is <<"">>.
Split(s, sep) ==
    LET i == IndexOf(s, sep)
    IN  IF i = 0 THEN <<s>>
        ELSE <<SubSeq(s, 1, i - 1)>> \o Split(SubSeq(s, i + Len(sep), Len(s)), sep)

IsDigit(c) == \E d \in 1..10 : CharAt(Digits, d) = c
DigitVal(c) == (CHOOSE d \in 1..10 : CharAt(Digits, d) = c) - 1
AllDigits(s) == Len(s) > 0 /\ \A i \in 1..Len(s) : IsDigit(CharAt(s, i))

RECURSIVE NatVal(_)
NatVal(s) ==
    IF s = "" THEN 0
    ELSE NatVal(SubSeq(s, 1, Len(s) - 1)) * 10 + DigitVal(CharAt(s, Len(s)))

\* strconv.ParseFloat(s, 64) on the rating strings of the model, which carry
\* at most one fractional digit.  val is the parsed number in tenths; a string
\* that is no number gives val 0 and an error, as ParseFloat does.
ParseFloat(s) ==
    LET dot == IndexOf(s, ".")
        ip  == SubSeq(s, 1, dot - 1)
        fp  == SubSeq(s, dot + 1, Len(s))
    IN  IF dot = 0
        THEN IF AllDigits(s) THEN [val |-> NatVal(s) * 10, err |-> FALSE]
                             ELSE [val |-> 0, err |-> TRUE]
        ELSE IF AllDigits(ip) /\ AllDigits(fp) /\ Len(fp) = 1
             THEN [val |-> NatVal(ip) * 10 + NatVal(fp), err |-> FALSE]
             ELSE [val |-> 0, err |-> TRUE]

\* min of part_001
min(a, b) == IF a < b THEN a ELSE b

-----------------------------------------------------------------------------
(* The Term Expander.                                                      *)

genreTerms ==
    "action"    :> <<"action", "adventure", "superhero", "martial arts", "spy">> @@
    "comedy"    :> <<"comedy", "funny", "humor", "romantic comedy", "parody">> @@
    "drama"     :> <<"drama", "emotional", "family", "biographical", "historical">> @@
    "horror"    :> <<"horror", "scary", "thriller", "supernatural", "zombie">> @@
    "sci-fi"    :> <<"science fiction", "sci-fi", "space", "future", "alien">> @@
    "romance"   :> <<"romance", "love", "romantic", "wedding", "relationship">> @@
    "thriller"  :> <<"thriller", "suspense", "mystery", "crime", "psychological">> @@
    "animation" :> <<"animation", "animated", "cartoon", "pixar", "disney">> @@
    "fantasy"   :> <<"fantasy", "magic", "wizard", "medieval", "adventure">> @@
    "crime"     :> <<"crime", "gangster", "mafia", "detective", "police">>

\* Variant of genreKey: the lookup with the name as given, not lowered.
genreKeyAsGiven(genre) == genre

\* The lookup key of getGenreSearchTerms: strings.ToLower(genre).
genreKey(genre) == ToLower(genre)

getGenreSearchTerms(genre) ==
    IF genreKey(genre) \in DOMAIN genreTerms
    THEN genreTerms[genreKey(genre)]
    ELSE <<genre, "movie", "film">>

-----------------------------------------------------------------------------
(* The upstream catalog API: the records a detail lookup can return and    *)
(* the pages a search can return.                                          *)

Rec(id, title, year, genre, director, actors, rating) ==
    [ImdbID |-> id, Title |-> title, Year |-> year, Genre |-> genre,
     Director |-> director, Actors |-> actors, Plot |-> "plot of " \o id,
     ImdbRating |-> rating, Response |-> "True"]

Catalog ==
    { Rec("tt1", "The Matrix", "1999", "Action, Sci-Fi",
          "Lana Wachowski, Lilly Wachowski", "Keanu Reeves, Laurence Fishburne", "8.7"),
      Rec("tt2", "John Wick", "2014", "Action, Crime",
          "Chad Stahelski", "Keanu Reeves", "7.4"),
      Rec("tt3", "Speed", "1994", "Action, Thriller",
          "Jan de Bont", "Keanu Reeves, Sandra Bullock", "7.4"),
      Rec("tt4", "Blade Runner", "1982", "Action, Sci-Fi",
          "Ridley Scott", "Harrison Ford", "8.1"),
      Rec("tt5", "Bound", "1996", "Crime, Thriller",
          "Lana Wachowski, Lilly Wachowski", "Jennifer Tilly", "7.3"),
      Rec("tt6", "Untitled Action", "2030", "Action",
          "N/A", "Keanu Reeves", "N/A"),
      Rec("tt7", "Zero Hour", "2001", "Action, Sci-Fi",
          "Jan de Bont", "N/A", "0.0"),
      Rec("tt8", "Solo", "2020", "",
          "", "", "6.0") }

\* The record the upstream resolves a title to (the t= lookup): the exact
\* titles of the catalog in either letter case, and "Matrix", which the
\* upstream resolves to "The Matrix".  Titles not listed are not found.
TitleIndex ==
    "The Matrix" :> "tt1" @@ "the matrix" :> "tt1" @@ "Matrix" :> "tt1" @@
    "John Wick" :> "tt2" @@ "Speed" :> "tt3" @@ "Blade Runner" :> "tt4" @@
    "Bound" :> "tt5" @@ "Untitled Action" :> "tt6" @@ "Zero Hour" :> "tt7" @@
    "Solo" :> "tt8"

CatalogRecord(id) == CHOOSE r \in Catalog : r.ImdbID = id

Hit(id, title) == [ImdbID |-> id, Title |-> title]

\* The pages of the search endpoint (the s= search), by term and page; a
\* term and page not listed answers Response "False".
SearchIndex ==
    \* terms of the genre listing for "action"
    <<"action", 1>> :> <<Hit("tt2", "John Wick"), Hit("tt3", "Speed"),
                         Hit("tt6", "Untitled Action")>> @@
    <<"action", 2>> :> <<Hit("tt4", "Blade Runner"), Hit("tt14", "Blade Runner")>> @@
    <<"action", 3>> :> <<Hit("tt7", "Zero Hour"), Hit("tt1", "The Matrix")>> @@
    <<"adventure", 1>> :> <<Hit("tt2", "John Wick"), Hit("tt99", "Lost Reel"),
                            Hit("tt5", "Bound")>> @@
    <<"spy", 2>> :> <<Hit("tt11", "Matrix")>> @@
    \* terms of the genre listing for "sci-fi" and for an unmapped genre
    <<"sci-fi", 1>> :> <<Hit("tt4", "Blade Runner"), Hit("tt1", "The Matrix")>> @@
    <<"space", 3>> :> <<Hit("tt7", "Zero Hour")>> @@
    <<"movie", 2>> :> <<Hit("tt3", "Speed"), Hit("tt8", "Solo")>> @@
    \* terms of the recommendation facets: the names of the seed
    <<"Action", 1>> :> <<Hit("tt1", "The Matrix"), Hit("tt2", "John Wick"),
                         Hit("tt4", "Blade Runner")>> @@
    <<"Action", 2>> :> <<Hit("tt11", "Matrix"), Hit("tt3", "Speed")>> @@
    <<"Sci-Fi", 1>> :> <<Hit("tt4", "Blade Runner"), Hit("tt14", "Blade Runner")>> @@
    <<"Sci-Fi", 2>> :> <<Hit("tt7", "Zero Hour")>> @@
    <<"Lana Wachowski", 1>> :> <<Hit("tt5", "Bound"), Hit("tt1", "the matrix")>> @@
    <<"Lilly Wachowski", 2>> :> <<Hit("tt5", "Bound")>> @@
    <<"Keanu Reeves", 1>> :> <<Hit("tt3", "Speed"), Hit("tt6", "Untitled Action")>> @@
    <<"Keanu Reeves", 2>> :> <<Hit("tt2", "John Wick"), Hit("tt3", "Speed")>> @@
    <<"", 1>> :> <<Hit("tt8", "Solo"), Hit("tt5", "Bound")>>

\* The kinds of answer of one upstream call.
NoErr == "nil"

\* The answers SearchMovies(query, page) can give: a transport or parse
\* failure (err # nil), or the decoded body, whose Response is "False" when
\* the upstream finds nothing.
SearchMovies(query, page) ==
    { [err |-> "failed to make request: timeout", Response |-> "", Search |-> <<>>],
      [err |-> NoErr, Response |-> "False", Search |-> <<>>],
      IF <<query, page>> \in DOMAIN SearchIndex
      THEN [err |-> NoErr, Response |-> "True", Search |-> SearchIndex[<<query, page>>]]
      ELSE [err |-> NoErr, Response |-> "False", Search |-> <<>>] }

NoRecord == [ImdbID |-> "", Title |-> "", Year |-> "", Genre |-> "", Director |-> "",
             Actors |-> "", Plot |-> "", ImdbRating |-> "", Response |-> ""]

\* makeRequest turns Response "False" into this error.
notFoundErr == "OMDb API error: Movie not found!"
transportErr == "failed to make request: timeout"
parseErr == "failed to parse response: unexpected end of JSON input"

\* The answers GetMovieByTitle(title) can give, through makeRequest: a
\* transport failure, a malformed body, the upstream's not-found answer
\* (an error too), or the record the title resolves to.
GetMovieByTitle(title) ==
    { [err |-> transportErr, rec |-> NoRecord],
      [err |-> parseErr, rec |-> NoRecord],
      IF title \in DOMAIN TitleIndex
      THEN [err |-> NoErr, rec |-> CatalogRecord(TitleIndex[title])]
      ELSE [err |-> notFoundErr, rec |-> NoRecord] }

-----------------------------------------------------------------------------
(* The code's conditions and constructors.                                 *)

\* err != nil || searchResp.Response == "False"
searchFailed(r) == r.err # NoErr \/ r.Response = "False"

\* err != nil || movieDetails.Response == "False"
lookupFailed(d) == d.err # NoErr \/ d.rec.Response = "False"

\* movieSet[result.ImdbID]
isDuplicate(set, result) == result.ImdbID \in set

\* strings.EqualFold(result.Title, excludeTitle)
isExcluded(result, title) == EqualFold(result.Title, title)

\* strings.Contains(strings.ToLower(movieDetails.Genre), strings.ToLower(genre))
genreMatches(details, genre) == Contains(ToLower(details.Genre), ToLower(genre))

\* the switch on searchType of getMoviesExcluding
matches(type, details, term) ==
    CASE type = "genre"    -> Contains(ToLower(details.Genre), ToLower(term))
      [] type = "director" -> Contains(ToLower(details.Director), ToLower(term))
      [] type = "actor"    -> Contains(ToLower(details.Actors), ToLower(term))
      [] OTHER             -> FALSE

\* rating, _ := strconv.ParseFloat(movieDetails.ImdbRating, 64); the error is dropped
ratingOf(s) == ParseFloat(s).val

\* Variant of hasValidRating: rating >= 0, which lets a zero or unparseable
\* rating through.
hasValidRatingOrZero(details) == ratingOf(details.ImdbRating) >= 0

\* rating > 0
hasValidRating(details) == ratingOf(details.ImdbRating) > 0

MovieBrief(details) ==
    [Title |-> details.Title, Year |-> details.Year, ImdbRating |-> details.ImdbRating,
     Genre |-> details.Genre, Director |-> details.Director, Plot |-> details.Plot]

\* len(allMovies) >= limit*2
genreStop(n, lim) == n >= lim * 2

\* len(movies) >= limit
limitReached(n, lim) == n >= lim

\* if len(allMovies) > limit { allMovies = allMovies[:limit] }
topMovies(list, lim) == IF Len(list) > lim THEN SubSeq(list, 1, lim) ELSE list

\* the less function of both sorts: ratingI > ratingJ
less(a, b) == ratingOf(a.ImdbRating) > ratingOf(b.ImdbRating)

RemoveAt(list, i) == SubSeq(list, 1, i - 1) \o SubSeq(list, i + 1, Len(list))

RECURSIVE sortSlice(_)
\* sort.Slice(list, less): every ordering of list by less that sort.Slice may
\* leave.  sort.Slice is not a stable sort: entries that less does not order
\* may end in either order.  (The Go runtime sorts a slice of up to 12
\* entries by insertion, which keeps them in order, and longer slices by
\* pdqsort, which does not; the lists of the model are shorter than the
\* code's, so the documented contract stands for every length.)
sortSlice(list) ==
    IF list = <<>> THEN {<<>>}
    ELSE LET first == {i \in 1..Len(list) : \A j \in 1..Len(list) : ~less(list[j], list[i])}
         IN  UNION {{<<list[i]>> \o rest : rest \in sortSlice(RemoveAt(list, i))} : i \in first}

\* Variant of facetNames: the field taken whole, not split.
facetNamesUnsplit(details, facet) ==
    CASE facet = 1 -> <<details.Genre>>
      [] facet = 2 -> <<details.Director>>
      [] facet = 3 -> <<details.Actors>>

\* The names of one facet of the seed: strings.Split(field, ", "), and for
\* the actors the first min(3, len) of them.
Facets == <<"genre", "director", "actor">>

facetNames(details, facet) ==
    CASE facet = 1 -> Split(details.Genre, ", ")
      [] facet = 2 -> Split(details.Director, ", ")
      [] facet = 3 -> LET actors == Split(details.Actors, ", ")
                      IN  SubSeq(actors, 1, min(MaxActors, Len(actors)))

facetList(recs, facet) ==
    CASE facet = 1 -> recs.GenreBased
      [] facet = 2 -> recs.DirectorBased
      [] facet = 3 -> recs.ActorBased

withFacetList(recs, facet, list) ==
    CASE facet = 1 -> [recs EXCEPT !.GenreBased = list]
      [] facet = 2 -> [recs EXCEPT !.DirectorBased = list]
      [] facet = 3 -> [recs EXCEPT !.ActorBased = list]

\* Variant of remaining: the whole cap, whatever the list holds already.
remainingWholeCap(list) == FacetCap

\* 20-len(list), the limit handed to getMoviesExcluding
remaining(list) == FacetCap - Len(list)

\* fmt.Errorf("favorite movie not found: %s", favoriteMovie)
favoriteNotFound(favoriteMovie) == "favorite movie not found: " \o favoriteMovie

\* The handler's choice of status for an error of GetRecommendations.
statusOfError(e) == IF Contains(e, "not found") THEN 404 ELSE 500

-----------------------------------------------------------------------------
(* The state of one request, and of the request served beside it.           *)

VARIABLES
    req,             \* the request: [op, genre] or [op, favorite_movie]
    pc,              \* where the request is in the code
    searchTerms,     \* GetMoviesByGenre: the terms of the genre
    termIdx,         \* GetMoviesByGenre: the index of the current term
    allMovies,       \* GetMoviesByGenre: the list collected, then returned
    page,            \* both collectors: the page to search
    searchResp,      \* both collectors: the answer of the last search
    hitIdx,          \* both collectors: the index of the current hit
    movieSet,        \* both collectors: the identifiers already collected
    fetched,         \* both collectors: movieDetails, the record of the last lookup
    searchTerm,      \* getMoviesExcluding: parameter
    searchType,      \* getMoviesExcluding: parameter
    excludeTitle,    \* getMoviesExcluding: parameter
    limit,           \* getMoviesExcluding: parameter
    movies,          \* getMoviesExcluding: the list collected
    movieDetails,    \* GetRecommendations: the seed's record
    recommendations, \* GetRecommendations: the response being built
    facet,           \* GetRecommendations: the facet loop (1 genre, 2 director, 3 actor)
    names,           \* GetRecommendations: genres, directors or actors
    nameIdx,         \* GetRecommendations: the index of the current name
    err,             \* the error the service call returned
    status,          \* the HTTP status the handler answered, 0 before
    unsorted,        \* history: the lists as they were handed to the sort
    lastCall,        \* history: the upstream call of the last step
    calls,           \* history: upstream calls of the current collection
    running,         \* the request whose goroutine is executing (1 or 2)
    parked,          \* the locals of the other request, while it does not execute
    preemptions      \* the times a request was suspended before its return

vars == <<req, pc, searchTerms, termIdx, allMovies, page, searchResp, hitIdx,
          movieSet, fetched, searchTerm, searchType, excludeTitle, limit, movies,
          movieDetails, recommendations, facet, names, nameIdx, err, status,
          unsorted, lastCall, calls, running, parked, preemptions>>

pairVars == <<running, parked, preemptions>>
genreVars == <<searchTerms, termIdx, allMovies>>
loopVars == <<page, searchResp, hitIdx, movieSet, fetched>>
exclVars == <<searchTerm, searchType, excludeTitle, limit, movies>>
recVars == <<movieDetails, recommendations, facet, names, nameIdx>>

\* The genre query parameters and favorite_movie query parameters tried.
GenreInputs ==
    {"", "Action", "ACTION", "action", "Sci-Fi", "sci-fi", "Sci", "jazz", "movie",
     "Comedy", "Drama", "Horror", "Romance", "Thriller", "Animation", "Fantasy",
     "Crime"}

FavoriteInputs ==
    {"", "The Matrix", "the matrix", "Matrix", "Speed", "Bound", "Solo", "Lost Reel"}

Requests ==
    {[op |-> "genre", genre |-> g] : g \in GenreInputs} \cup
    {[op |-> "recommendations", favorite_movie |-> f] : f \in FavoriteInputs}

NoCall == [kind |-> "none", query |-> "", page |-> 0, outcome |-> ""]
NoCalls == [search |-> 0, detail |-> 0, hits |-> 0, queries |-> {}]
NoSearch == [err |-> NoErr, Response |-> "", Search |-> <<>>]
NoRecommendations ==
    [FavoriteMovie |-> "", GenreBased |-> <<>>, DirectorBased |-> <<>>, ActorBased |-> <<>>]

\* The locals of a request the handler has not begun to serve.
StartContext(r) ==
    [req |-> r, pc |-> "start",
     searchTerms |-> <<>>, termIdx |-> 0, allMovies |-> <<>>,
     page |-> 0, searchResp |-> NoSearch, hitIdx |-> 0, movieSet |-> {},
     fetched |-> NoRecord,
     searchTerm |-> "", searchType |-> "", excludeTitle |-> "", limit |-> 0,
     movies |-> <<>>,
     movieDetails |-> NoRecord, recommendations |-> NoRecommendations,
     facet |-> 0, names |-> <<>>, nameIdx |-> 0,
     err |-> NoErr, status |-> 0,
     unsorted |-> <<>>, lastCall |-> NoCall, calls |-> NoCalls]

\* No second request is served.
NoRequest == [StartContext([op |-> "none"]) EXCEPT !.pc = "done"]

\* The executing request has not begun.
Start ==
    /\ pc = "start"
    /\ searchTerms = <<>> /\ termIdx = 0 /\ allMovies = <<>>
    /\ page = 0 /\ searchResp = NoSearch /\ hitIdx = 0 /\ movieSet = {}
    /\ fetched = NoRecord
    /\ searchTerm = "" /\ searchType = "" /\ excludeTitle = "" /\ limit = 0
    /\ movies = <<>>
    /\ movieDetails = NoRecord /\ recommendations = NoRecommendations
    /\ facet = 0 /\ names = <<>> /\ nameIdx = 0
    /\ err = NoErr /\ status = 0
    /\ unsorted = <<>> /\ lastCall = NoCall /\ calls = NoCalls
    /\ running = 1 /\ preemptions = 0

Init ==
    /\ req \in Requests
    /\ Start
    /\ parked = NoRequest

searchOutcome(r) ==
    IF r.err # NoErr THEN "error" ELSE IF r.Response = "False" THEN "false" ELSE "ok"

lookupOutcome(d) ==
    IF d.err = NoErr THEN "ok" ELSE IF d.err = notFoundErr THEN "notfound" ELSE "error"

searchCall(query, p, r) ==
    [kind |-> "search", query |-> query, page |-> p, outcome |-> searchOutcome(r)]

lookupCall(title, d) ==
    [kind |-> "detail", query |-> title, page |-> 0, outcome |-> lookupOutcome(d)]

-----------------------------------------------------------------------------
(* GET /api/movies/genre: MovieHandler.GetMoviesByGenre and                *)
(* OMDbService.GetMoviesByGenre.                                           *)

\* The handler refuses an empty genre.
GenreBadRequest ==
    /\ pc = "start" /\ req.op = "genre" /\ req.genre = ""
    /\ status' = 400
    /\ pc' = "done"
    /\ UNCHANGED <<req, pairVars, genreVars, loopVars, exclVars,
                   recVars, err, unsorted, lastCall, calls>>

\* The handler calls GetMoviesByGenre(genre, 15), which expands the genre.
GenreBegin ==
    /\ pc = "start" /\ req.op = "genre" /\ req.genre # ""
    /\ searchTerms' = getGenreSearchTerms(req.genre)
    /\ termIdx' = 1
    /\ allMovies' = <<>>
    /\ movieSet' = {}
    /\ calls' = NoCalls
    /\ pc' = "g_term"
    /\ UNCHANGED <<req, pairVars, page, searchResp, hitIdx, fetched, exclVars, recVars, err,
                   status, unsorted, lastCall>>

\* The head of the loop over the terms: leave it when the terms are used up
\* or limit*2 movies are collected, else start the pages of the term.
GenreTerm ==
    /\ pc = "g_term"
    /\ IF termIdx > Len(searchTerms) \/ genreStop(Len(allMovies), GenreLimit)
       THEN pc' = "g_sort" /\ UNCHANGED page
       ELSE pc' = "g_page" /\ page' = 1
    /\ lastCall' = NoCall
    /\ UNCHANGED <<req, pairVars, genreVars, searchResp, hitIdx, movieSet, fetched, exclVars,
                   recVars, err, status, unsorted, calls>>

\* Variant of genreAdvance: the same page once more, as a retry would.
genreAdvanceRetries ==
    /\ page' = page
    /\ pc' = "g_page" /\ UNCHANGED termIdx

\* After the hits of a page (used up, or left by the break): the next page,
\* and after the last page the next term.
genreAdvance ==
    /\ page' = page + 1
    /\ IF page + 1 > GenrePages
       THEN pc' = "g_term" /\ termIdx' = termIdx + 1
       ELSE pc' = "g_page" /\ UNCHANGED termIdx

\* One search of the page loop.
GenreSearch ==
    /\ pc = "g_page"
    /\ \E r \in SearchMovies(searchTerms[termIdx], page) :
          /\ lastCall' = searchCall(searchTerms[termIdx], page, r)
          /\ calls' = [calls EXCEPT !.search = @ + 1, !.hits = @ + Len(r.Search),
                                    !.queries = @ \cup {searchTerms[termIdx]}]
          /\ searchResp' = r
          /\ IF searchFailed(r) \/ Len(r.Search) = 0
             THEN genreAdvance /\ UNCHANGED hitIdx
             ELSE pc' = "g_hit" /\ hitIdx' = 1 /\ UNCHANGED <<page, termIdx>>
    /\ UNCHANGED <<req, pairVars, searchTerms, allMovies, movieSet, fetched, exclVars, recVars,
                   err, status, unsorted>>

\* continue: the next hit of the page, or the next page.
genreContinue ==
    IF hitIdx + 1 > Len(searchResp.Search)
    THEN genreAdvance /\ UNCHANGED hitIdx
    ELSE hitIdx' = hitIdx + 1 /\ UNCHANGED <<pc, page, termIdx>>

\* One hit of a page: skip an identifier already collected, else look the
\* title up and collect the record when it has the genre and a rating.
GenreHit ==
    /\ pc = "g_hit"
    /\ LET result == searchResp.Search[hitIdx] IN
       IF isDuplicate(movieSet, result)
       THEN /\ lastCall' = NoCall
            /\ genreContinue
            /\ UNCHANGED <<allMovies, movieSet, fetched, calls>>
       ELSE \E d \in GetMovieByTitle(result.Title) :
              /\ lastCall' = lookupCall(result.Title, d)
              /\ calls' = [calls EXCEPT !.detail = @ + 1]
              /\ fetched' = d.rec
              /\ IF ~lookupFailed(d) /\ genreMatches(d.rec, req.genre)
                    /\ hasValidRating(d.rec)
                 THEN /\ allMovies' = Append(allMovies, MovieBrief(d.rec))
                      /\ movieSet' = movieSet \cup {result.ImdbID}
                      /\ IF genreStop(Len(allMovies) + 1, GenreLimit)
                         THEN genreAdvance /\ UNCHANGED hitIdx
                         ELSE genreContinue
                 ELSE /\ genreContinue
                      /\ UNCHANGED <<allMovies, movieSet>>
    /\ UNCHANGED <<req, pairVars, searchTerms, searchResp, exclVars, recVars, err, status,
                   unsorted>>

\* The sort, the cut to the limit and the return; the handler answers 500
\* for an error, 404 for an empty list, 200 otherwise.
GenreReturn ==
    /\ pc = "g_sort"
    /\ unsorted' = <<allMovies>>
    /\ \E s \in sortSlice(allMovies) :
          /\ allMovies' = topMovies(s, GenreLimit)
          /\ err' = NoErr
          /\ status' = IF Len(topMovies(s, GenreLimit)) = 0 THEN 404 ELSE 200
    /\ pc' = "done"
    /\ lastCall' = NoCall
    /\ UNCHANGED <<req, pairVars, searchTerms, termIdx, loopVars, exclVars, recVars, calls>>

-----------------------------------------------------------------------------
(* GET /api/recommendations: MovieHandler.GetRecommendations,              *)
(* OMDbService.GetRecommendations and getMoviesExcluding.                  *)

\* The handler refuses an empty favorite_movie.
RecBadRequest ==
    /\ pc = "start" /\ req.op = "recommendations" /\ req.favorite_movie = ""
    /\ status' = 400
    /\ pc' = "done"
    /\ UNCHANGED <<req, pairVars, genreVars, loopVars, exclVars,
                   recVars, err, unsorted, lastCall, calls>>

\* The lookup of the seed.  Any failure ends the request with the error
\* "favorite movie not found: ...", which the handler turns into a status;
\* a record starts the genre facet.
RecSeed ==
    /\ pc = "start" /\ req.op = "recommendations" /\ req.favorite_movie # ""
    /\ \E d \in GetMovieByTitle(req.favorite_movie) :
          /\ lastCall' = lookupCall(req.favorite_movie, d)
          /\ IF lookupFailed(d)
             THEN /\ err' = favoriteNotFound(req.favorite_movie)
                  /\ status' = statusOfError(favoriteNotFound(req.favorite_movie))
                  /\ pc' = "done"
                  /\ UNCHANGED recVars
             ELSE /\ movieDetails' = d.rec
                  /\ recommendations' =
                         [NoRecommendations EXCEPT !.FavoriteMovie = d.rec.Title]
                  /\ facet' = 1
                  /\ names' = facetNames(d.rec, 1)
                  /\ nameIdx' = 1
                  /\ pc' = "r_name"
                  /\ UNCHANGED <<err, status>>
    /\ UNCHANGED <<req, pairVars, genreVars, loopVars, exclVars,
                   unsorted, calls>>

\* The head of a facet's loop, when the loop ends: the names are used up or
\* the facet list holds the cap.  The next facet begins, or the sorts.
RecFacetEnd ==
    /\ pc = "r_name"
    /\ nameIdx > Len(names) \/ Len(facetList(recommendations, facet)) >= FacetCap
    /\ IF facet < 3
       THEN /\ facet' = facet + 1
            /\ names' = facetNames(movieDetails, facet + 1)
            /\ nameIdx' = 1
            /\ UNCHANGED pc
       ELSE /\ pc' = "r_sort"
            /\ UNCHANGED <<facet, names, nameIdx>>
    /\ lastCall' = NoCall
    /\ UNCHANGED <<req, pairVars, genreVars, loopVars, exclVars,
                   movieDetails, recommendations, err, status, unsorted, calls>>

\* The head of a facet's loop, when it goes on: the call of
\* getMoviesExcluding(name, facet, movieDetails.Title, 20-len(list)).
RecCollect ==
    /\ pc = "r_name"
    /\ nameIdx <= Len(names) /\ Len(facetList(recommendations, facet)) < FacetCap
    /\ searchTerm' = names[nameIdx]
    /\ searchType' = Facets[facet]
    /\ excludeTitle' = movieDetails.Title
    /\ limit' = remaining(facetList(recommendations, facet))
    /\ movies' = <<>>
    /\ movieSet' = {}
    /\ page' = 1
    /\ calls' = NoCalls
    /\ lastCall' = NoCall
    /\ pc' = "x_page"
    /\ UNCHANGED <<req, pairVars, genreVars, searchResp, hitIdx, fetched, recVars, err, status,
                   unsorted>>

\* Variant of exclAdvance: return after the first page left, as a return in
\* place of the continue would.
exclAdvanceReturns ==
    /\ page' = page + 1
    /\ pc' = "x_ret"

\* After the hits of a page of getMoviesExcluding: the next page, and after
\* the last page the return.
exclAdvance ==
    /\ page' = page + 1
    /\ pc' = IF page + 1 > FacetPages THEN "x_ret" ELSE "x_page"

\* One search of getMoviesExcluding.
ExclSearch ==
    /\ pc = "x_page"
    /\ \E r \in SearchMovies(searchTerm, page) :
          /\ lastCall' = searchCall(searchTerm, page, r)
          /\ calls' = [calls EXCEPT !.search = @ + 1, !.hits = @ + Len(r.Search),
                                    !.queries = @ \cup {searchTerm}]
          /\ searchResp' = r
          /\ IF searchFailed(r) \/ Len(r.Search) = 0
             THEN exclAdvance /\ UNCHANGED hitIdx
             ELSE pc' = "x_hit" /\ hitIdx' = 1 /\ UNCHANGED page
    /\ UNCHANGED <<req, pairVars, genreVars, movieSet, fetched, exclVars, recVars, err, status,
                   unsorted>>

\* continue: the next hit of the page, or the next page.
exclContinue ==
    IF hitIdx + 1 > Len(searchResp.Search)
    THEN exclAdvance /\ UNCHANGED hitIdx
    ELSE hitIdx' = hitIdx + 1 /\ UNCHANGED <<pc, page>>

\* One hit of a page of getMoviesExcluding: skip an identifier already
\* collected and a hit titled like the seed, else look the title up and
\* collect the record when it matches the facet and has a rating; return
\* at once when the limit is reached.
ExclHit ==
    /\ pc = "x_hit"
    /\ LET result == searchResp.Search[hitIdx] IN
       IF isDuplicate(movieSet, result) \/ isExcluded(result, excludeTitle)
       THEN /\ lastCall' = NoCall
            /\ exclContinue
            /\ UNCHANGED <<movies, movieSet, fetched, calls>>
       ELSE \E d \in GetMovieByTitle(result.Title) :
              /\ lastCall' = lookupCall(result.Title, d)
              /\ calls' = [calls EXCEPT !.detail = @ + 1]
              /\ fetched' = d.rec
              /\ IF ~lookupFailed(d) /\ matches(searchType, d.rec, searchTerm)
                    /\ hasValidRating(d.rec)
                 THEN /\ movies' = Append(movies, MovieBrief(d.rec))
                      /\ movieSet' = movieSet \cup {result.ImdbID}
                      /\ IF limitReached(Len(movies) + 1, limit)
                         THEN pc' = "x_ret" /\ UNCHANGED <<hitIdx, page>>
                         ELSE exclContinue
                 ELSE /\ exclContinue
                      /\ UNCHANGED <<movies, movieSet>>
    /\ UNCHANGED <<req, pairVars, genreVars, searchResp, searchTerm, searchType, excludeTitle,
                   limit, recVars, err, status, unsorted>>

\* The return of getMoviesExcluding (its error is always nil): the caller
\* appends the movies to the facet list and goes to the next name.
ExclReturn ==
    /\ pc = "x_ret"
    /\ recommendations' =
           withFacetList(recommendations, facet,
                         facetList(recommendations, facet) \o movies)
    /\ nameIdx' = nameIdx + 1
    /\ pc' = "r_name"
    /\ lastCall' = NoCall
    /\ UNCHANGED <<req, pairVars, genreVars, loopVars, exclVars,
                   movieDetails, facet, names, err, status, unsorted, calls>>

\* The three sorts and the return; the handler answers 200.
RecReturn ==
    /\ pc = "r_sort"
    /\ unsorted' = <<recommendations.GenreBased, recommendations.DirectorBased,
                     recommendations.ActorBased>>
    /\ \E g \in sortSlice(recommendations.GenreBased),
          d \in sortSlice(recommendations.DirectorBased),
          a \in sortSlice(recommendations.ActorBased) :
          recommendations' = [recommendations EXCEPT
                                 !.GenreBased = g, !.DirectorBased = d, !.ActorBased = a]
    /\ err' = NoErr
    /\ status' = 200
    /\ pc' = "done"
    /\ lastCall' = NoCall
    /\ UNCHANGED <<req, pairVars, genreVars, loopVars, exclVars,
                   movieDetails, facet, names, nameIdx, calls>>

-----------------------------------------------------------------------------
Next ==
    \/ GenreBadRequest \/ GenreBegin \/ GenreTerm \/ GenreSearch \/ GenreHit
    \/ GenreReturn
    \/ RecBadRequest \/ RecSeed \/ RecFacetEnd \/ RecCollect \/ ExclSearch
    \/ ExclHit \/ ExclReturn \/ RecReturn

Spec == Init /\ [][Next]_vars

-----------------------------------------------------------------------------
(* Two requests served at once.  The server runs every handler on a        *)
(* goroutine of its own and both call the one *OMDbService; the service's  *)
(* methods keep everything they write in variables declared in their own   *)
(* bodies and only read the service's fields.  The locals of the request   *)
(* that does not execute are parked; a switch of goroutines parks the      *)
(* locals of the one and resumes the locals of the other.                  *)

\* The locals of the executing request.
context ==
    [req |-> req, pc |-> pc,
     searchTerms |-> searchTerms, termIdx |-> termIdx, allMovies |-> allMovies,
     page |-> page, searchResp |-> searchResp, hitIdx |-> hitIdx,
     movieSet |-> movieSet, fetched |-> fetched,
     searchTerm |-> searchTerm, searchType |-> searchType,
     excludeTitle |-> excludeTitle, limit |-> limit, movies |-> movies,
     movieDetails |-> movieDetails, recommendations |-> recommendations,
     facet |-> facet, names |-> names, nameIdx |-> nameIdx,
     err |-> err, status |-> status,
     unsorted |-> unsorted, lastCall |-> lastCall, calls |-> calls]

\* Variant of ownMovieSet: one dedup set kept by the service and used by
\* every call, so a resumed request finds the set as the other left it.
serviceMovieSet(own, current) == current

\* The dedup set a resumed request works on: movieSet is made by the call
\* itself (movieSet := make(map[string]bool)), so it is the call's own set.
ownMovieSet(own, current) == own

\* The resumed request continues with its own locals.
Resume(c) ==
    /\ req' = c.req /\ pc' = c.pc
    /\ searchTerms' = c.searchTerms /\ termIdx' = c.termIdx
    /\ allMovies' = c.allMovies
    /\ page' = c.page /\ searchResp' = c.searchResp /\ hitIdx' = c.hitIdx
    /\ movieSet' = ownMovieSet(c.movieSet, movieSet)
    /\ fetched' = c.fetched
    /\ searchTerm' = c.searchTerm /\ searchType' = c.searchType
    /\ excludeTitle' = c.excludeTitle /\ limit' = c.limit /\ movies' = c.movies
    /\ movieDetails' = c.movieDetails /\ recommendations' = c.recommendations
    /\ facet' = c.facet /\ names' = c.names /\ nameIdx' = c.nameIdx
    /\ err' = c.err /\ status' = c.status
    /\ unsorted' = c.unsorted /\ lastCall' = c.lastCall /\ calls' = c.calls

\* The scheduler lets the other request execute: at any step of the
\* executing request (a preemption, counted) or after its return.
Switch ==
    /\ parked.pc # "done"
    /\ pc = "done" \/ preemptions < MaxPreemptions
    /\ preemptions' = IF pc = "done" THEN preemptions ELSE preemptions + 1
    /\ running' = 3 - running
    /\ parked' = context
    /\ Resume(parked)

\* The two requests served at once: the first of PairFirst, the second of
\* PairSecond.
PairFirst ==
    {[op |-> "genre", genre |-> ""], [op |-> "genre", genre |-> "Sci-Fi"],
     [op |-> "recommendations", favorite_movie |-> "Bound"]}

PairSecond ==
    {[op |-> "recommendations", favorite_movie |-> ""],
     [op |-> "recommendations", favorite_movie |-> "Bound"]}

PairInit ==
    /\ req \in PairFirst
    /\ Start
    /\ \E r \in PairSecond : parked = StartContext(r)

PairNext == Next \/ Switch

PairSpec == PairInit /\ [][PairNext]_vars

-----------------------------------------------------------------------------
(* The claims.                                                             *)

Range(f) == {f[i] : i \in DOMAIN f}

IsPrefix(a, b) == Len(a) <= Len(b) /\ SubSeq(b, 1, Len(a)) = a

\* The catalog identifier of the record a MovieBrief was built from.
sourceId(m) == (CHOOSE r \in Catalog : MovieBrief(r) = m).ImdbID

noTwoFromSameRecord(list) ==
    \A i, j \in 1..Len(list) : i < j => sourceId(list[i]) # sourceId(list[j])

facetLists ==
    <<recommendations.GenreBased, recommendations.DirectorBased,
      recommendations.ActorBased>>

inGenreLoop == pc \in {"g_page", "g_hit"}
inExclLoop == pc \in {"x_page", "x_hit"}

RECURSIVE stableSort(_)
\* The stable descending sort: among the entries of greatest rating the
\* first one comes first.
stableSort(list) ==
    IF list = <<>> THEN <<>>
    ELSE LET first == {i \in 1..Len(list) : \A j \in 1..Len(list) : ~less(list[j], list[i])}
             i == CHOOSE k \in first : \A l \in first : k <= l
         IN  <<list[i]>> \o stableSort(RemoveAt(list, i))

\* C1: no facet list of GetRecommendations holds two entries that come from
\* the same catalog identifier.
C1_FacetListsHaveNoDuplicates ==
    \A f \in 1..3 : noTwoFromSameRecord(facetLists[f])

\* C2: no entry of a facet list has a title case-insensitively equal to the
\* seed's title.
C2_SeedTitleExcluded ==
    \A f \in 1..3 : \A m \in Range(facetLists[f]) :
        ~EqualFold(m.Title, movieDetails.Title)

\* C3: getMoviesExcluding holds at most limit entries (limit >= 1),
\* GetMoviesByGenre returns at most limit entries, and every facet list
\* holds at most the cap in every state.
C3_LimitsHold ==
    /\ pc \in {"x_page", "x_hit", "x_ret"} => limit >= 1 /\ Len(movies) <= limit
    /\ (req.op = "genre" /\ pc = "done") => Len(allMovies) <= GenreLimit
    /\ \A f \in 1..3 : Len(facetLists[f]) <= FacetCap

\* C3 witness: a facet list filled to the cap by two calls of
\* getMoviesExcluding, the second with a smaller limit.
C3_Witness ==
    /\ pc = "x_ret" /\ facet = 1 /\ nameIdx = 2
    /\ limit < FacetCap /\ Len(movies) = limit

\* C3 witness of the genre listing: more collected than the limit, the limit returned.
C3_GenreWitness ==
    /\ req.op = "genre" /\ pc = "done" /\ unsorted # <<>>
    /\ Len(unsorted[1]) > GenreLimit /\ Len(allMovies) = GenreLimit

\* C4: the lists returned are the stable descending sort of the lists
\* collected.
C4_SortIsStable ==
    pc = "done" /\ unsorted # <<>> =>
        IF req.op = "genre"
        THEN allMovies = topMovies(stableSort(unsorted[1]), GenreLimit)
        ELSE \A f \in 1..3 : facetLists[f] = stableSort(unsorted[f])

\* C5, in every state: every entry collected has a rating string that parses
\* to a number greater than 0, and the collections have raised no error.
C5_Rated ==
    /\ \A m \in Range(allMovies) \cup Range(movies) \cup UNION {Range(facetLists[f]) : f \in 1..3} :
          ~ParseFloat(m.ImdbRating).err /\ ParseFloat(m.ImdbRating).val > 0
    /\ (req.op = "genre" \/ pc \in {"r_name", "x_page", "x_hit", "x_ret", "r_sort"}) => err = NoErr

\* C5, in every step of a collection: a list grows only by the record just
\* fetched, and a fetched record whose rating is unparseable or not above 0
\* leaves the lists as they are and raises no error.
C5_Step ==
    (inGenreLoop \/ inExclLoop) =>
        /\ (allMovies' # allMovies \/ movies' # movies) =>
              /\ lastCall'.kind = "detail" /\ lastCall'.outcome = "ok"
              /\ ParseFloat(fetched'.ImdbRating).val > 0
              /\ allMovies' # allMovies => allMovies' = Append(allMovies, MovieBrief(fetched'))
              /\ movies' # movies => movies' = Append(movies, MovieBrief(fetched'))
        /\ (lastCall'.kind = "detail" /\ lastCall'.outcome = "ok"
            /\ (ParseFloat(fetched'.ImdbRating).err \/ ParseFloat(fetched'.ImdbRating).val = 0)) =>
              allMovies' = allMovies /\ movies' = movies /\ err' = NoErr

\* C5: records with an unparseable or zero rating are skipped without an
\* error, and every entry collected comes from a record rated above 0.
C5_OnlyRatedRecords == []C5_Rated /\ [][C5_Step]_vars

\* C5 witness: a genre listing whose last fetched record is unrated and
\* which returns the empty list and a nil error.
C5_Witness ==
    /\ req.op = "genre" /\ pc = "done"
    /\ fetched.ImdbRating = "N/A" /\ genreMatches(fetched, req.genre)
    /\ allMovies = <<>> /\ err = NoErr

\* C6: a failed seed lookup fails the request with no facet list and no
\* search, as NotFoundError (404) for the upstream's not-found answer and as
\* UpstreamError (500) for a transport failure or malformed body.
C6_SeedFailureKindPreserved ==
    (req.op = "recommendations" /\ pc = "done" /\ lastCall.kind = "detail"
     /\ lastCall.outcome # "ok") =>
        /\ recommendations = NoRecommendations
        /\ calls.search = 0
        /\ lastCall.outcome = "notfound" => status = 404
        /\ lastCall.outcome = "error" => status = 500

failedCall(c) == c.outcome \in {"error", "false", "notfound"}

\* C7, in every step of a collection: no error is raised and no list loses
\* an entry; a step whose search or lookup failed leaves the lists as they
\* are and goes on with the next hit, page or term; a step that fetched a
\* record matching the facet and rated above 0 appends it.
C7_LoopStep ==
    /\ inGenreLoop =>
          /\ err' = NoErr /\ IsPrefix(allMovies, allMovies')
          /\ failedCall(lastCall') =>
                /\ allMovies' = allMovies
                /\ pc' \in {"g_hit", "g_page", "g_term"}
                /\ pc' = "g_hit" => hitIdx' = hitIdx + 1
                /\ pc' = "g_page" => page' = page + 1
                /\ pc' = "g_term" => page + 1 > GenrePages /\ termIdx' = termIdx + 1
          /\ (lastCall'.kind = "detail" /\ lastCall'.outcome = "ok"
              /\ genreMatches(fetched', req.genre)
              /\ ParseFloat(fetched'.ImdbRating).val > 0) =>
                allMovies' = Append(allMovies, MovieBrief(fetched'))
    /\ inExclLoop =>
          /\ err' = NoErr /\ IsPrefix(movies, movies')
          /\ failedCall(lastCall') =>
                /\ movies' = movies
                /\ pc' \in {"x_hit", "x_page", "x_ret"}
                /\ pc' = "x_hit" => hitIdx' = hitIdx + 1
                /\ pc' = "x_page" => page' = page + 1
                /\ pc' = "x_ret" => page + 1 > FacetPages
          /\ (lastCall'.kind = "detail" /\ lastCall'.outcome = "ok"
              /\ matches(searchType, fetched', searchTerm)
              /\ ParseFloat(fetched'.ImdbRating).val > 0) =>
                movies' = Append(movies, MovieBrief(fetched'))

\* C7, at the return of a collection: getMoviesExcluding hands every entry
\* it collected to the facet list, and GetMoviesByGenre returns, of the
\* entries it collected, as many as the limit allows, with a nil error.
C7_ReturnStep ==
    /\ pc = "x_ret" =>
          /\ facetList(recommendations', facet) = facetList(recommendations, facet) \o movies
          /\ err' = NoErr
    /\ pc = "g_sort" =>
          /\ Len(allMovies') = min(GenreLimit, Len(allMovies))
          /\ Range(allMovies') \subseteq Range(allMovies)
          /\ err' = NoErr

\* C7: inside a collection a failed or "False" search and a failed or
\* not-found lookup never raise an error and never remove a candidate; the
\* loop goes on and every qualifying candidate found is collected.
C7_FailuresAbsorbed == [][C7_LoopStep /\ C7_ReturnStep]_vars

\* C7 witness: getMoviesExcluding returns a candidate of page 1 after the
\* search of page 2 failed.
C7_Witness ==
    /\ pc = "x_ret" /\ Len(movies) >= 1 /\ Len(movies) < limit
    /\ lastCall.kind = "search" /\ lastCall.page = FacetPages
    /\ lastCall.outcome = "error"

CanonicalGenres == DOMAIN genreTerms

\* C8, at the head of the loop over the terms: getGenreSearchTerms returned
\* a non-empty sequence; for a name that is
\* no canonical genre name in any letter case it is (name, "movie", "film"),
\* and for a canonical name in any letter case it is that genre's terms.
C8_TermExpansion ==
    (req.op = "genre" /\ pc = "g_term") =>
        /\ Len(searchTerms) > 0
        /\ (\A c \in CanonicalGenres : ~EqualFold(req.genre, c)) =>
              searchTerms = <<req.genre, "movie", "film">>
        /\ \A c \in CanonicalGenres :
              EqualFold(req.genre, c) => searchTerms = genreTerms[c]

\* C8 witness: a canonical name in another letter case got its mapped terms.
C8_Witness ==
    /\ req.op = "genre" /\ req.genre = "ACTION" /\ pc = "g_term"
    /\ searchTerms = <<"action", "adventure", "superhero", "martial arts", "spy">>

\* C8 witness of the fallback.
C8_FallbackWitness ==
    /\ req.op = "genre" /\ req.genre = "jazz" /\ pc = "g_term"
    /\ searchTerms = <<"jazz", "movie", "film">>

C9_Searches ==
    (facet = 1 /\ pc \in {"x_page", "x_hit", "x_ret"}) =>
        /\ names = Split(movieDetails.Genre, ", ") /\ nameIdx \in 1..Len(names)
        /\ searchType = "genre" /\ searchTerm = names[nameIdx]
        /\ calls.queries \subseteq {names[nameIdx]} /\ calls.search <= FacetPages
        /\ lastCall.kind = "search" =>
              lastCall.query = names[nameIdx] /\ lastCall.page \in 1..FacetPages

\* C9 as amended, in every step of the genre facet: an entry is collected
\* from a hit of a search for the name, and the names are taken in order.
C9_Step ==
    /\ (facet = 1 /\ pc = "x_hit" /\ movies' # movies) =>
          /\ searchResp \in SearchMovies(names[nameIdx], page)
          /\ lastCall'.kind = "detail"
          /\ lastCall'.query = searchResp.Search[hitIdx].Title
          /\ movies' = Append(movies, MovieBrief(fetched'))
    /\ (facet = 1 /\ pc = "x_ret") =>
          /\ nameIdx' = nameIdx + 1
          /\ recommendations'.GenreBased = recommendations.GenreBased \o movies

C10_GenreListHasNoDuplicates ==
    req.op = "genre" => noTwoFromSameRecord(allMovies)

\* The locals of request r, executing or parked.
localsOf(r) == IF running = r THEN context ELSE parked

\* A step leaves request r alone, or it is a step r takes when it is served
\* alone (a step of Next on r's own locals, with the upstream answer of
\* that step).
C11_Step(r) ==
    \/ localsOf(r)' = localsOf(r)
    \/ running = r /\ running' = r /\ Next

\* C11: two requests served at once share no mutable state: under every
\* interleaving, what each request does is a run of that request alone
\* against the upstream answers it got, so it returns what it would return
\* alone.
C11_RequestsAreIsolated == [][C11_Step(1) /\ C11_Step(2)]_vars

\* C11 witness: both requests returned after each was suspended in its
\* collection, the genre listing and the director facet both holding the
\* record tt1, which each dedup set had to admit.
C11_Witness ==
    /\ localsOf(1).pc = "done" /\ localsOf(2).pc = "done"
    /\ preemptions = MaxPreemptions
    /\ localsOf(1).req.op = "genre"
    /\ \E m \in Range(localsOf(1).allMovies) : sourceId(m) = "tt1"
    /\ \E m \in Range(localsOf(2).recommendations.DirectorBased) : sourceId(m) = "tt1"

\* A step of GetMoviesByGenre taken with limit*2 movies collected calls the
\* upstream no more and adds nothing to the list.
C12_Step ==
    (req.op = "genre" /\ pc \in {"g_term", "g_page", "g_hit"}
        /\ genreStop(Len(allMovies), GenreLimit)) =>
        /\ lastCall'.kind = "none"
        /\ pc' \notin {"g_page", "g_hit"}
        /\ Len(allMovies') <= GenreLimit * 2

\* C12: once GetMoviesByGenre has collected limit*2 movies it issues no
\* further search and no further detail lookup for any remaining hit, page
\* or term, and the list collected never holds more than limit*2 entries
\* before the sort and the cut.
C12_StopsAtThreshold == [][C12_Step]_vars

inGenreCollection == pc \in {"g_term", "g_page", "g_hit"}
inExclCollection == pc \in {"x_page", "x_hit", "x_ret"}

\* The place of a collection in its loops: term, page, search done or not,
\* hit.
position ==
    CASE pc = "g_term" -> <<termIdx, 0, 0, 0>>
      [] pc = "g_page" -> <<termIdx, page, 0, 0>>
      [] pc = "g_hit"  -> <<termIdx, page, 1, hitIdx>>
      [] pc = "x_page" -> <<0, page, 0, 0>>
      [] pc = "x_hit"  -> <<0, page, 1, hitIdx>>
      [] pc = "x_ret"  -> <<0, FacetPages + 1, 0, 0>>
      [] OTHER         -> <<0, 0, 0, 0>>

\* The lexicographic order of places.
before(a, b) ==
    \E i \in 1..4 : a[i] < b[i] /\ \A j \in 1..(i - 1) : a[j] = b[j]

\* The searches issued are those of the places passed, each once: in
\* getMoviesExcluding the i-th search is the search of page i of the term,
\* at most FacetPages of them; in GetMoviesByGenre the searches of a term
\* are those of its pages 1..GenrePages in turn; and no more lookups are
\* made than hits were returned.
C13_Bounded ==
    /\ pc = "x_page" => page <= FacetPages /\ calls.search = page - 1
    /\ pc = "x_hit" => page <= FacetPages /\ calls.search = page
    /\ pc = "x_ret" => calls.search <= FacetPages
    /\ inExclCollection /\ lastCall.kind = "search" =>
           lastCall.query = searchTerm /\ lastCall.page = calls.search
    /\ pc = "g_term" => calls.search = (termIdx - 1) * GenrePages
    /\ pc = "g_page" => /\ termIdx <= Len(searchTerms) /\ page <= GenrePages
                        /\ calls.search = (termIdx - 1) * GenrePages + page - 1
    /\ pc = "g_hit" => /\ termIdx <= Len(searchTerms) /\ page <= GenrePages
                       /\ calls.search = (termIdx - 1) * GenrePages + page
    /\ req.op = "genre" => calls.search <= GenrePages * Len(searchTerms)
    /\ req.op = "genre" /\ lastCall.kind = "search" =>
           /\ lastCall.query = searchTerms[((calls.search - 1) \div GenrePages) + 1]
           /\ lastCall.page = ((calls.search - 1) % GenrePages) + 1
    /\ calls.detail <= calls.hits

\* Every step inside a collection moves it forward in its loops, and makes
\* at most one upstream call.
C13_Step ==
    /\ (inGenreCollection /\ inGenreCollection') => before(position, position')
    /\ (inExclCollection /\ inExclCollection') => before(position, position')
    /\ (inGenreCollection \/ inExclCollection) =>
           calls'.search + calls'.detail <= calls.search + calls.detail + 1

====
